---- MODULE Spec2Model ----
(***************************************************************************)
(* Model of the Python-node example scripts of ifc-flow-vibe               *)
(* (docs/python-examples): the space analysis (space-analysis-example.py), *)
(* the two room-assignment mapping transformers                            *)
(* (room-assignment-transform.py, keyed by GlobalId, and                   *)
(* room-assignment-to-walls.py, keyed by internal element id) and the      *)
(* property-adding stage (add-room-info-example.py).                       *)
(*                                                                         *)
(* Python values are modelled as follows.  A dict with computed keys is a  *)
(* sequence of [key, val] records in insertion order (Python dicts keep    *)
(* insertion order; writing an existing key keeps its position).  A dict   *)
(* with literal keys is a TLA+ record, so "k in d" is k \in DOMAIN d and    *)
(* d.get(k, default) is Get(d, k, default).  A value handed from one node  *)
(* to the next is [kind, items]: kind is the Python type, items the dict's *)
(* content (empty for values that are not dicts).                          *)
(***************************************************************************)
EXTENDS Integers, Sequences, FiniteSets, TLC

VARIABLES
    script,                 \* the script that is running
    pc,                     \* its position
    ifc_file,               \* the IFC model handed to the script (ifc_file / model)
    input_data,             \* the value handed over by the previous node
    inputs_model,           \* to-walls: inputs['model']['elements']
    element_space_map,      \* the assignment table being read or built
    wall_global_ids,        \* transform: GlobalIds of the model's walls
    element_lookup,         \* to-walls: element id -> GlobalId and type
    wall_mappings,          \* transformers: GlobalId -> room name
    walls_found,            \* transformers: counter
    other_elements_skipped, \* transformers: counter
    space_data,             \* space analysis: the space records
    zone_data,              \* space analysis: the zone records
    unassigned,             \* space analysis: the unassigned elements
    pos,                    \* index of the loop in progress
    result                  \* the script's result (result / output)

vars == <<script, pc, ifc_file, input_data, inputs_model, element_space_map,
          wall_global_ids, element_lookup, wall_mappings, walls_found,
          other_elements_skipped, space_data, zone_data, unassigned, pos, result>>

\* the variables of the transformers and those of the space analysis
transformer_vars == <<inputs_model, wall_global_ids, element_lookup, wall_mappings,
                      walls_found, other_elements_skipped>>
analysis_vars == <<space_data, zone_data, unassigned>>

(***************************************************************************)
(* Bounds of the model                                                     *)
(***************************************************************************)
\* longest assignment table handed to a transformer
MaxEntries == 2

(***************************************************************************)
(* Python values                                                           *)
(***************************************************************************)
\* Python's None where a string is expected (distinct from the string "None")
PyNone == "<null>"

NoItems == <<>>
NoneValue == [kind |-> "NoneType", items |-> NoItems]
ListValue == [kind |-> "list", items |-> NoItems]
Unset == [kind |-> "unset", items |-> NoItems]
DictValue(items) == [kind |-> "dict", items |-> items]

\* d.get(k, default) on a dict with literal keys
Get(d, k, default) == IF k \in DOMAIN d THEN d[k] ELSE default

\* truth value of a string (or None)
Truthy(s) == s # "" /\ s # PyNone

\* dicts with computed keys: sequences of [key, val]
DictKeys(d) == {d[i].key : i \in 1..Len(d)}
DictHas(d, k) == k \in DictKeys(d)
DictGet(d, k) == d[CHOOSE i \in 1..Len(d) : d[i].key = k].val
DictSet(d, k, v) ==
    IF DictHas(d, k)
    THEN [i \in 1..Len(d) |-> IF d[i].key = k THEN [key |-> k, val |-> v] ELSE d[i]]
    ELSE Append(d, [key |-> k, val |-> v])

RECURSIVE SeqToSet(_)
SeqToSet(s) == IF s = <<>> THEN {} ELSE {Head(s)} \cup SeqToSet(Tail(s))

(***************************************************************************)
(* The IFC model: model.by_type(...) enumerations, in file order           *)
(***************************************************************************)
NoModel == [usable |-> FALSE, spaces |-> <<>>, storeys |-> <<>>, zones |-> <<>>,
            aggregates |-> <<>>, contained |-> <<>>, groups |-> <<>>,
            elements |-> <<>>]

\* an attribute that is not set: the accessor returns None, and any attribute
\* or method of it (rel.RelatingObject.is_a) raises AttributeError
NoEntity == [GlobalId |-> PyNone, type |-> "NoneType", Name |-> PyNone]
\* property sets that ifcopenshell.util.element.get_psets cannot read (it raises)
UnreadablePsets == [unreadable |-> TRUE]
\* model.by_type('IfcWall'): the IfcElement entities that are walls
ByTypeWall(m) == SelectSeq(m.elements, LAMBDA e : e.type = "IfcWall")

(***************************************************************************)
(* room-assignment-transform.py (direct shape, keyed by GlobalId)          *)
(***************************************************************************)
\* line 11: input_data and isinstance(input_data, dict) and 'elementSpaceMap' in input_data
IsRoomAssignment(d) ==
    /\ d.kind = "dict"
    /\ DOMAIN d.items # {}
    /\ "elementSpaceMap" \in DOMAIN d.items

\* lines 20-27: the GlobalIds of model.by_type('IfcWall'), empty without a model
WallGlobalIdsOfAllElements(m) ==
    IF m.usable THEN {w.GlobalId : w \in SeqToSet(m.elements)} ELSE {}
WallGlobalIds(m) ==
    IF m.usable THEN {w.GlobalId : w \in SeqToSet(ByTypeWall(m))} ELSE {}

\* line 43 (room-assignment-to-walls.py line 56): space_name and space_name != 'None'
ValidSpaceNameLoose(space_name) == Truthy(space_name)
ValidSpaceName(space_name) == Truthy(space_name) /\ space_name # "None"

\* lines 38-50: one iteration, as the new (wall_mappings, walls_found, skipped)
TransformEntryCountsInvalid(entry, ids, m, found, skipped) ==
    LET space_name == Get(entry.val, "spaceName", "") IN
    IF entry.key \in ids /\ ValidSpaceName(space_name)
    THEN <<DictSet(m, entry.key, space_name), found + 1, skipped>>
    ELSE <<m, found, skipped + 1>>
TransformEntry(entry, ids, m, found, skipped) ==
    LET global_id == entry.key
        space_name == Get(entry.val, "spaceName", "") IN
    IF global_id \in ids
    THEN IF ValidSpaceName(space_name)
         THEN <<DictSet(m, global_id, space_name), found + 1, skipped>>
         ELSE <<m, found, skipped>>
    ELSE <<m, found, skipped + 1>>

\* lines 58-65 (to-walls 64-71): the transformer's result
MappingResultTotalIsFound(m, found, skipped) ==
    DictValue([mappings |-> m,
               metadata |-> [wallsFound |-> found,
                             otherElementsSkipped |-> skipped,
                             totalMappings |-> found]])
MappingResult(m, found, skipped) ==
    DictValue([mappings |-> m,
               metadata |-> [wallsFound |-> found,
                             otherElementsSkipped |-> skipped,
                             totalMappings |-> Len(m)]])

\* lines 70-75: the result for unrecognized input
NoDataResult ==
    DictValue([mappings |-> <<>>,
               metadata |-> [error |-> "No room assignment data found"]])

T_Recognize ==
    /\ script = "transform" /\ pc = "start"
    /\ IsRoomAssignment(input_data)
    /\ element_space_map' = input_data.items["elementSpaceMap"]
    /\ wall_global_ids' = WallGlobalIds(ifc_file)
    /\ wall_mappings' = <<>>
    /\ walls_found' = 0
    /\ other_elements_skipped' = 0
    /\ pos' = 1
    /\ pc' = "loop"
    /\ UNCHANGED <<analysis_vars, script, ifc_file, input_data, inputs_model, element_lookup, result>>

T_Reject ==
    /\ script = "transform" /\ pc = "start"
    /\ ~IsRoomAssignment(input_data)
    /\ result' = NoDataResult
    /\ pc' = "done"
    /\ UNCHANGED <<analysis_vars, script, ifc_file, input_data, inputs_model, element_space_map,
                   wall_global_ids, element_lookup, wall_mappings, walls_found,
                   other_elements_skipped, pos>>

T_Entry ==
    /\ script = "transform" /\ pc = "loop"
    /\ pos <= Len(element_space_map)
    /\ LET r == TransformEntry(element_space_map[pos], wall_global_ids,
                               wall_mappings, walls_found, other_elements_skipped)
       IN /\ wall_mappings' = r[1]
          /\ walls_found' = r[2]
          /\ other_elements_skipped' = r[3]
    /\ pos' = pos + 1
    /\ UNCHANGED <<analysis_vars, script, pc, ifc_file, input_data, inputs_model, element_space_map,
                   wall_global_ids, element_lookup, result>>

T_Finish ==
    /\ script = "transform" /\ pc = "loop"
    /\ pos > Len(element_space_map)
    /\ result' = MappingResult(wall_mappings, walls_found, other_elements_skipped)
    /\ pc' = "done"
    /\ UNCHANGED <<analysis_vars, script, ifc_file, input_data, inputs_model, element_space_map,
                   wall_global_ids, element_lookup, wall_mappings, walls_found,
                   other_elements_skipped, pos>>

(***************************************************************************)
(* room-assignment-to-walls.py (indirect shape, keyed by element id)       *)
(***************************************************************************)
\* line 24: 'elementSpaceMap' in input_data. input_data is inputs.get('input', {});
\* the test raises TypeError on None, is False on a list that does not hold the
\* string and on a dict without the key.
ContainmentTestFaults(d) == d.kind = "NoneType"
HasElementSpaceMap(d) == d.kind = "dict" /\ "elementSpaceMap" \in DOMAIN d.items

\* lines 32-41: element_lookup, from the model's element list
RECURSIVE ElementLookup(_, _)
ElementLookup(elements, lookup) ==
    IF elements = <<>> THEN lookup
    ELSE LET elem == Head(elements)
             elem_id == elem.id
             global_id == elem.properties.GlobalId
             elem_type == elem.type
         IN ElementLookup(Tail(elements),
                IF Truthy(elem_id) /\ Truthy(global_id)
                THEN DictSet(lookup, elem_id, [GlobalId |-> global_id, type |-> elem_type])
                ELSE lookup)

\* lines 48-60: one iteration, as the new (wall_mappings, walls_found, skipped)
ToWallsEntry(entry, lookup, m, found, skipped) ==
    LET elem_id == entry.key IN
    IF DictHas(lookup, elem_id)
    THEN LET elem_info == DictGet(lookup, elem_id) IN
         IF elem_info.type = "IfcWall"
         THEN LET global_id == elem_info.GlobalId
                  space_name == Get(entry.val, "spaceName", "") IN
              IF ValidSpaceName(space_name)
              THEN <<DictSet(m, global_id, space_name), found + 1, skipped>>
              ELSE <<m, found, skipped>>
         ELSE <<m, found, skipped + 1>>
    ELSE <<m, found, skipped>>

W_Recognize ==
    /\ script = "to-walls" /\ pc = "start"
    /\ ~ContainmentTestFaults(input_data)
    /\ HasElementSpaceMap(input_data)
    /\ element_space_map' = input_data.items["elementSpaceMap"]
    /\ element_lookup' = ElementLookup(inputs_model, <<>>)
    /\ wall_mappings' = <<>>
    /\ walls_found' = 0
    /\ other_elements_skipped' = 0
    /\ pos' = 1
    /\ pc' = "loop"
    /\ UNCHANGED <<analysis_vars, script, ifc_file, input_data, inputs_model, wall_global_ids, result>>

\* lines 77-80: not room assignment data, the input is the output
W_PassThrough ==
    /\ script = "to-walls" /\ pc = "start"
    /\ ~ContainmentTestFaults(input_data)
    /\ ~HasElementSpaceMap(input_data)
    /\ result' = input_data
    /\ pc' = "done"
    /\ UNCHANGED <<analysis_vars, script, ifc_file, input_data, inputs_model, element_space_map,
                   wall_global_ids, element_lookup, wall_mappings, walls_found,
                   other_elements_skipped, pos>>

\* line 24 on None: TypeError, which nothing catches; the script ends without a result
W_Fault ==
    /\ script = "to-walls" /\ pc = "start"
    /\ ContainmentTestFaults(input_data)
    /\ pc' = "fault"
    /\ UNCHANGED <<analysis_vars, script, ifc_file, input_data, inputs_model, element_space_map,
                   wall_global_ids, element_lookup, wall_mappings, walls_found,
                   other_elements_skipped, pos, result>>

W_Entry ==
    /\ script = "to-walls" /\ pc = "loop"
    /\ pos <= Len(element_space_map)
    /\ LET r == ToWallsEntry(element_space_map[pos], element_lookup,
                             wall_mappings, walls_found, other_elements_skipped)
       IN /\ wall_mappings' = r[1]
          /\ walls_found' = r[2]
          /\ other_elements_skipped' = r[3]
    /\ pos' = pos + 1
    /\ UNCHANGED <<analysis_vars, script, pc, ifc_file, input_data, inputs_model, element_space_map,
                   wall_global_ids, element_lookup, result>>

W_Finish ==
    /\ script = "to-walls" /\ pc = "loop"
    /\ pos > Len(element_space_map)
    /\ result' = MappingResult(wall_mappings, walls_found, other_elements_skipped)
    /\ pc' = "done"
    /\ UNCHANGED <<analysis_vars, script, ifc_file, input_data, inputs_model, element_space_map,
                   wall_global_ids, element_lookup, wall_mappings, walls_found,
                   other_elements_skipped, pos>>

(***************************************************************************)
(* Strings and numbers of the space analysis                               *)
(***************************************************************************)
\* The characters of the strings that occur as space names and types (TLC
\* strings are atomic; str.lower() and the substring test need the characters).
Chars(s) ==
    CASE s = "" -> <<>>
      [] s = "Room A" -> <<"R", "o", "o", "m", " ", "A">>
      [] s = "Room B" -> <<"R", "o", "o", "m", " ", "B">>
      [] s = "Main Corridor" -> <<"M", "a", "i", "n", " ", "C", "o", "r", "r", "i", "d", "o", "r">>
      [] s = "Office 1" -> <<"O", "f", "f", "i", "c", "e", " ", "1">>
      [] s = "Generic" -> <<"G", "e", "n", "e", "r", "i", "c">>
      [] s = "LOBBY" -> <<"L", "O", "B", "B", "Y">>
      [] s = "Office" -> <<"O", "f", "f", "i", "c", "e">>
      [] s = "Space_S1" -> <<"S", "p", "a", "c", "e", "_", "S", "1">>
      [] s = "Space_S2_01234" -> <<"S", "p", "a", "c", "e", "_", "S", "2", "_", "0", "1", "2", "3", "4">>
      [] s = "Space_S3" -> <<"S", "p", "a", "c", "e", "_", "S", "3">>
      [] s = "corridor" -> <<"c", "o", "r", "r", "i", "d", "o", "r">>
      [] s = "hallway" -> <<"h", "a", "l", "l", "w", "a", "y">>
      [] s = "lobby" -> <<"l", "o", "b", "b", "y">>
      [] s = "stair" -> <<"s", "t", "a", "i", "r">>
      [] s = "elevator" -> <<"e", "l", "e", "v", "a", "t", "o", "r">>
      [] s = "circulation" -> <<"c", "i", "r", "c", "u", "l", "a", "t", "i", "o", "n">>

\* str.lower(), character by character
LowerChar(c) ==
    CASE c = "A" -> "a"
      [] c = "B" -> "b"
      [] c = "C" -> "c"
      [] c = "D" -> "d"
      [] c = "E" -> "e"
      [] c = "F" -> "f"
      [] c = "G" -> "g"
      [] c = "H" -> "h"
      [] c = "I" -> "i"
      [] c = "J" -> "j"
      [] c = "K" -> "k"
      [] c = "L" -> "l"
      [] c = "M" -> "m"
      [] c = "N" -> "n"
      [] c = "O" -> "o"
      [] c = "P" -> "p"
      [] c = "Q" -> "q"
      [] c = "R" -> "r"
      [] c = "S" -> "s"
      [] c = "T" -> "t"
      [] c = "U" -> "u"
      [] c = "V" -> "v"
      [] c = "W" -> "w"
      [] c = "X" -> "x"
      [] c = "Y" -> "y"
      [] c = "Z" -> "z"
      [] OTHER -> c
Lower(cs) == [i \in 1..Len(cs) |-> LowerChar(cs[i])]

\* needle in hay, on characters
Contains(hay, needle) ==
    \E i \in 0..(Len(hay) - Len(needle)) : SubSeq(hay, i + 1, i + Len(needle)) = needle

\* s[:8]: the string itself up to 8 characters, its first 8 otherwise
First8(s) ==
    IF Len(s) <= 8 THEN s
    ELSE CASE s = "S2_0123456" -> "S2_01234"

\* Quantities are fixed-point numbers in thousandths (20500 is 20.5); round() goes
\* to the nearest value and to the even one on a tie. RoundHalfEven(n, d) is
\* round(n / d) for n >= 0 and d > 0.
RoundHalfEven(n, d) ==
    LET q == n \div d
        r == n % d
    IN IF 2 * r < d THEN q
       ELSE IF 2 * r > d THEN q + 1
       ELSE IF q % 2 = 0 THEN q ELSE q + 1
\* round(x, 2)
Round2(x) == 10 * RoundHalfEven(x, 10)
\* round(part / total * 100, 1), in tenths of a percent
Percentage(part, total) == RoundHalfEven(part * 1000, total)

RECURSIVE SumOf(_, _)
SumOf(records, field) ==
    IF records = <<>> THEN 0 ELSE Head(records)[field] + SumOf(Tail(records), field)

(***************************************************************************)
(* space-analysis-example.py                                               *)
(***************************************************************************)
\* lines 46-50: the storey of a space: the first aggregation relationship that
\* relates the space and whose relating object is a building storey
RECURSIVE StoreyOfLastMatch(_, _)
StoreyOfLastMatch(rels, space) ==
    IF rels = <<>> THEN PyNone
    ELSE LET rel == Head(rels)
             later == StoreyOfLastMatch(Tail(rels), space)
         IN IF later # PyNone THEN later
            ELSE IF space.GlobalId \in rel.RelatedObjects
                       /\ rel.RelatingObject.type = "IfcBuildingStorey"
                 THEN rel.RelatingObject.Name
                 ELSE PyNone
RECURSIVE StoreyOf(_, _)
StoreyOf(rels, space) ==
    IF rels = <<>> THEN PyNone
    ELSE LET rel == Head(rels) IN
         IF space.GlobalId \in rel.RelatedObjects
                /\ rel.RelatingObject.type = "IfcBuildingStorey"
         THEN rel.RelatingObject.Name
         ELSE StoreyOf(Tail(rels), space)

\* lines 47-48 (add-room-info-example.py lines 42-43): the scan reaches, before
\* any relationship that ends it, a relationship that relates the space and whose
\* relating object is not set: rel.RelatingObject.is_a raises AttributeError
RECURSIVE StoreyLookupFaults(_, _)
StoreyLookupFaults(rels, space) ==
    IF rels = <<>> THEN FALSE
    ELSE LET rel == Head(rels) IN
         IF space.GlobalId \in rel.RelatedObjects
         THEN IF rel.RelatingObject = NoEntity THEN TRUE
              ELSE IF rel.RelatingObject.type = "IfcBuildingStorey" THEN FALSE
              ELSE StoreyLookupFaults(Tail(rels), space)
         ELSE StoreyLookupFaults(Tail(rels), space)

\* lines 34-44: the space record before its properties and elements
SpaceInfo(space, m) ==
    [id |-> space.GlobalId,
     name |-> IF Truthy(space.Name) THEN space.Name
              ELSE "Space_" \o First8(space.GlobalId),
     type |-> IF Truthy(space.ObjectType) THEN space.ObjectType ELSE "Generic",
     description |-> IF Truthy(space.Description) THEN space.Description ELSE "",
     storey |-> StoreyOf(m.aggregates, space),
     elements |-> <<>>,
     area |-> 0,
     volume |-> 0,
     height |-> 0]

\* lines 53-69: quantities and common properties from the property sets; when
\* get_psets raises (line 54) the except of line 68 leaves the record as it was
WithProperties(space_info, psets) ==
    IF psets = UnreadablePsets THEN space_info ELSE
    LET with_quantities ==
            IF "Qto_SpaceBaseQuantities" \in DOMAIN psets
            THEN LET quantities == psets["Qto_SpaceBaseQuantities"] IN
                 [space_info EXCEPT !.area = Get(quantities, "NetFloorArea", 0),
                                    !.volume = Get(quantities, "NetVolume", 0),
                                    !.height = Get(quantities, "Height", 0)]
            ELSE space_info
    IN IF "Pset_SpaceCommon" \in DOMAIN psets
       THEN LET common == psets["Pset_SpaceCommon"] IN
            with_quantities @@
                [occupancy_type |-> Get(common, "OccupancyType", ""),
                 occupancy_number |-> Get(common, "OccupancyNumber", 0)]
       ELSE with_quantities

\* lines 76-80 and 132-136: the summary of an element
ElementInfo(element) ==
    [id |-> element.GlobalId,
     type |-> element.type,
     name |-> IF Truthy(element.Name) THEN element.Name
              ELSE element.type \o "_" \o First8(element.GlobalId)]

\* lines 84-89: the entry written for an element of a space
MapEntry(space, space_info) ==
    [space_id |-> space.GlobalId,
     space_name |-> space_info.name,
     space_type |-> space_info.type,
     storey |-> space_info.storey]

\* lines 75-89: the elements of one relationship; acc is [contained, map]
RECURSIVE AddElementsKeepFirst(_, _, _, _)
AddElementsKeepFirst(related, space, space_info, acc) ==
    IF related = <<>> THEN acc
    ELSE LET element == Head(related) IN
         AddElementsKeepFirst(Tail(related), space, space_info,
             [contained |-> Append(acc.contained, ElementInfo(element)),
              map |-> IF DictHas(acc.map, element.GlobalId) THEN acc.map
                      ELSE DictSet(acc.map, element.GlobalId, MapEntry(space, space_info))])
RECURSIVE AddElements(_, _, _, _)
AddElements(related, space, space_info, acc) ==
    IF related = <<>> THEN acc
    ELSE LET element == Head(related) IN
         AddElements(Tail(related), space, space_info,
             [contained |-> Append(acc.contained, ElementInfo(element)),
              map |-> DictSet(acc.map, element.GlobalId, MapEntry(space, space_info))])

\* lines 72-89 without the test of line 74: every containment relationship counts
RECURSIVE ContainedInAnyStructure(_, _, _, _)
ContainedInAnyStructure(rels, space, space_info, acc) ==
    IF rels = <<>> THEN acc
    ELSE ContainedInAnyStructure(Tail(rels), space, space_info,
             AddElements(Head(rels).RelatedElements, space, space_info, acc))

\* lines 72-89: the containment relationships whose structure is the space
RECURSIVE ContainedIn(_, _, _, _)
ContainedIn(rels, space, space_info, acc) ==
    IF rels = <<>> THEN acc
    ELSE LET rel == Head(rels) IN
         ContainedIn(Tail(rels), space, space_info,
             IF rel.RelatingStructure = space.GlobalId
             THEN AddElements(rel.RelatedElements, space, space_info, acc)
             ELSE acc)

\* lines 109-114: the spaces of one group relationship
RECURSIVE SpacesAmong(_)
SpacesAmong(objects) ==
    IF objects = <<>> THEN <<>>
    ELSE LET obj == Head(objects)
             rest == SpacesAmong(Tail(objects))
         IN IF obj.type = "IfcSpace"
            THEN <<[id |-> obj.GlobalId,
                    name |-> IF Truthy(obj.Name) THEN obj.Name ELSE ""]>> \o rest
            ELSE rest

\* lines 107-114: the spaces of a zone
RECURSIVE SpacesOfZone(_, _)
SpacesOfZone(rels, zone) ==
    IF rels = <<>> THEN <<>>
    ELSE LET rel == Head(rels) IN
         (IF rel.RelatingGroup = zone.GlobalId
          THEN SpacesAmong(rel.RelatedObjects) ELSE <<>>)
             \o SpacesOfZone(Tail(rels), zone)

\* lines 96-116: the zone records
ZoneData(m) ==
    [i \in 1..Len(m.zones) |->
        LET zone == m.zones[i] IN
        [id |-> zone.GlobalId,
         name |-> IF Truthy(zone.Name) THEN zone.Name
                  ELSE "Zone_" \o First8(zone.GlobalId),
         type |-> IF Truthy(zone.ObjectType) THEN zone.ObjectType ELSE "Generic",
         description |-> IF Truthy(zone.Description) THEN zone.Description ELSE "",
         spaces |-> SpacesOfZone(m.groups, zone)]]

\* lines 125-129: the element is a related element of some containment relationship
InStorey(rels, element) ==
    \E i \in 1..Len(rels) :
        \E j \in 1..Len(rels[i].RelatedElements) :
            rels[i].RelatedElements[j].GlobalId = element.GlobalId

\* lines 119-136: the unassigned elements
RECURSIVE UnassignedIgnoresStoreys(_, _, _)
UnassignedIgnoresStoreys(elements, map, rels) ==
    IF elements = <<>> THEN <<>>
    ELSE LET element == Head(elements)
             rest == UnassignedIgnoresStoreys(Tail(elements), map, rels)
         IN IF ~DictHas(map, element.GlobalId)
            THEN <<ElementInfo(element)>> \o rest
            ELSE rest
RECURSIVE Unassigned(_, _, _)
Unassigned(elements, map, rels) ==
    IF elements = <<>> THEN <<>>
    ELSE LET element == Head(elements)
             rest == Unassigned(Tail(elements), map, rels)
         IN IF ~DictHas(map, element.GlobalId) /\ ~InStorey(rels, element)
            THEN <<ElementInfo(element)>> \o rest
            ELSE rest

\* lines 144-155: the spaces by type
RECURSIVE SpaceTypes(_, _)
SpaceTypes(spaces, types) ==
    IF spaces = <<>> THEN types
    ELSE LET space == Head(spaces)
             old == IF DictHas(types, space.type) THEN DictGet(types, space.type)
                    ELSE [count |-> 0, total_area |-> 0, spaces |-> <<>>]
         IN SpaceTypes(Tail(spaces),
                DictSet(types, space.type,
                    [count |-> old.count + 1,
                     total_area |-> old.total_area + space.area,
                     spaces |-> Append(old.spaces, space.name)]))

\* line 158
circulation_keywords ==
    <<"corridor", "hallway", "lobby", "stair", "elevator", "circulation">>

\* lines 163-167: a keyword occurs in the lowered name or in the lowered type
IsCirculationCaseSensitive(space) ==
    \E k \in 1..Len(circulation_keywords) :
        \/ Contains(Chars(space.name), Chars(circulation_keywords[k]))
        \/ Contains(Chars(space.type), Chars(circulation_keywords[k]))
IsCirculation(space) ==
    \E k \in 1..Len(circulation_keywords) :
        \/ Contains(Lower(Chars(IF space.name = PyNone THEN "" ELSE space.name)),
                    Chars(circulation_keywords[k]))
        \/ Contains(Lower(Chars(IF space.type = PyNone THEN "" ELSE space.type)),
                    Chars(circulation_keywords[k]))

\* lines 139-141 and 157-203: the summary
Summary(m, spaces, map, unassigned_elements) ==
    LET total_area == SumOf(spaces, "area")
        total_volume == SumOf(spaces, "volume")
        circulation_spaces == SelectSeq(spaces, IsCirculation)
        program_spaces == SelectSeq(spaces, LAMBDA sp : ~IsCirculation(sp))
        circulation_area == SumOf(circulation_spaces, "area")
        program_area == SumOf(program_spaces, "area")
    IN [total_spaces |-> Len(m.spaces),
        total_zones |-> Len(m.zones),
        total_storeys |-> Len(m.storeys),
        assigned_elements |-> Len(map),
        unassigned_elements |-> Len(unassigned_elements),
        total_area |-> Round2(total_area),
        total_volume |-> Round2(total_volume),
        average_height |-> IF spaces # <<>>
                           THEN 10 * RoundHalfEven(SumOf(spaces, "height"), 10 * Len(spaces))
                           ELSE 0,
        space_types |-> SpaceTypes(spaces, <<>>),
        circulation |-> [count |-> Len(circulation_spaces),
                         area |-> Round2(circulation_area),
                         percentage |-> IF total_area > 0
                                        THEN Percentage(circulation_area, total_area)
                                        ELSE 0],
        program |-> [count |-> Len(program_spaces),
                     area |-> Round2(program_area),
                     percentage |-> IF total_area > 0
                                    THEN Percentage(program_area, total_area)
                                    ELSE 0]]

\* lines 178-204: the result record
AnalysisResult(m, spaces, map, zones, unassigned_elements) ==
    DictValue([spaces |-> spaces,
               element_space_map |-> map,
               zones |-> zones,
               unassigned_elements |-> unassigned_elements,
               summary |-> Summary(m, spaces, map, unassigned_elements)])

\* lines 23-31: the enumerations; the space loop starts
A_Start ==
    /\ script = "space-analysis" /\ pc = "start"
    /\ space_data' = <<>>
    /\ element_space_map' = <<>>
    /\ pos' = 1
    /\ pc' = "spaces"
    /\ UNCHANGED <<transformer_vars, script, ifc_file, input_data, zone_data,
                   unassigned, result>>

\* lines 33-93: one space
A_Space ==
    /\ script = "space-analysis" /\ pc = "spaces"
    /\ pos <= Len(ifc_file.spaces)
    /\ ~StoreyLookupFaults(ifc_file.aggregates, ifc_file.spaces[pos])
    /\ LET space == ifc_file.spaces[pos]
           space_info == WithProperties(SpaceInfo(space, ifc_file), space.psets)
           found == ContainedIn(ifc_file.contained, space, space_info,
                                [contained |-> <<>>, map |-> element_space_map])
       IN /\ element_space_map' = found.map
          /\ space_data' = Append(space_data,
                 [space_info EXCEPT !.elements = found.contained]
                     @@ [element_count |-> Len(found.contained)])
    /\ pos' = pos + 1
    /\ UNCHANGED <<transformer_vars, script, pc, ifc_file, input_data, zone_data,
                   unassigned, result>>

\* lines 215-222: the result when an exception leaves the try block of line 21
AnalysisFailed ==
    DictValue([error |-> "'NoneType' object has no attribute 'is_a'",
               message |-> "Space analysis failed. Check that the IFC file contains space definitions."])

\* lines 47-48 and 215-222: the storey lookup of a space raises; nothing in the
\* space loop catches it, the except of line 215 replaces the result
A_SpaceFault ==
    /\ script = "space-analysis" /\ pc = "spaces"
    /\ pos <= Len(ifc_file.spaces)
    /\ StoreyLookupFaults(ifc_file.aggregates, ifc_file.spaces[pos])
    /\ result' = AnalysisFailed
    /\ pc' = "done"
    /\ UNCHANGED <<transformer_vars, analysis_vars, script, ifc_file, input_data,
                   element_space_map, pos>>

\* lines 96-116: the zones
A_Zones ==
    /\ script = "space-analysis" /\ pc = "spaces"
    /\ pos > Len(ifc_file.spaces)
    /\ zone_data' = ZoneData(ifc_file)
    /\ pc' = "unassigned"
    /\ UNCHANGED <<transformer_vars, script, ifc_file, input_data, element_space_map,
                   space_data, unassigned, pos, result>>

\* lines 119-136: the unassigned elements
A_Unassigned ==
    /\ script = "space-analysis" /\ pc = "unassigned"
    /\ unassigned' = Unassigned(ifc_file.elements, element_space_map, ifc_file.contained)
    /\ pc' = "summary"
    /\ UNCHANGED <<transformer_vars, script, ifc_file, input_data, element_space_map,
                   space_data, zone_data, pos, result>>

\* lines 139-204: the summary and the result
A_Summary ==
    /\ script = "space-analysis" /\ pc = "summary"
    /\ result' = AnalysisResult(ifc_file, space_data, element_space_map, zone_data,
                                unassigned)
    /\ pc' = "done"
    /\ UNCHANGED <<transformer_vars, analysis_vars, script, ifc_file, input_data,
                   element_space_map, pos>>

(***************************************************************************)
(* add-room-info-example.py (the property-adding stage)                    *)
(***************************************************************************)
\* lines 13-19: the assignment table of the input, under either spelling of the
\* key; an empty table stands for None as well (both are falsy at line 29 and
\* nothing else reads the value before it is replaced)
SpaceAssignments(d) ==
    IF d.kind = "dict" /\ DOMAIN d.items # {}
    THEN IF "elementSpaceMap" \in DOMAIN d.items
         THEN d.items["elementSpaceMap"]
         ELSE IF "element_space_map" \in DOMAIN d.items
              THEN d.items["element_space_map"]
              ELSE <<>>
    ELSE <<>>

\* a value of the table that is no dict (None): space_info.get raises AttributeError
NoneInfo == [NoneType |-> TRUE]
IsDict(space_info) == space_info # NoneInfo
\* lines 133-140: the result when an exception leaves the try block of line 28
AssignmentFailed(error) ==
    DictValue([error |-> error,
               message |-> "Failed to add space assignments to elements"])
\* lines 22-26: the result before the elements are processed
EmptyUpdate == [elements_updated |-> 0, elements_skipped |-> 0, details |-> <<>>]

\* lines 37-45 and 51-56: the entry written for the elements of a space
FallbackEntry(space, m) ==
    [spaceName |-> IF Truthy(space.Name) THEN space.Name
                   ELSE "Space_" \o First8(space.GlobalId),
     spaceType |-> IF Truthy(space.ObjectType) THEN space.ObjectType ELSE "Generic",
     spaceId |-> space.GlobalId,
     storey |-> StoreyOf(m.aggregates, space)]

\* lines 50-56: the elements of one relationship
RECURSIVE AssignElements(_, _, _)
AssignElements(related, entry, assignments) ==
    IF related = <<>> THEN assignments
    ELSE AssignElements(Tail(related), entry,
                        DictSet(assignments, Head(related).GlobalId, entry))

\* lines 48-56: the containment relationships whose structure is the space
RECURSIVE AssignContained(_, _, _, _)
AssignContained(rels, space, entry, assignments) ==
    IF rels = <<>> THEN assignments
    ELSE LET rel == Head(rels) IN
         AssignContained(Tail(rels), space, entry,
             IF rel.RelatingStructure = space.GlobalId
             THEN AssignElements(rel.RelatedElements, entry, assignments)
             ELSE assignments)

\* line 64: model.by_guid: the entities of the model with the GlobalId
ByGuid(m, guid) ==
    LET entities == m.elements \o m.spaces \o m.storeys \o m.zones IN
    SelectSeq(entities, LAMBDA e : e.GlobalId = guid)

\* lines 73-86: the details of an element and its assignment
ElementUpdate(element, space_info) ==
    [id |-> element.GlobalId,
     type |-> element.type,
     name |-> IF Truthy(element.Name) THEN element.Name ELSE "",
     space_assignment |-> [space_name |-> Get(space_info, "spaceName", ""),
                           space_type |-> Get(space_info, "spaceType", ""),
                           space_id |-> Get(space_info, "spaceId", ""),
                           storey |-> Get(space_info, "storey", "")]]

\* lines 105-111: the summary
UpdateSummary(assignments, update) ==
    [total_processed |-> Len(assignments),
     successfully_updated |-> update.elements_updated,
     skipped |-> update.elements_skipped,
     spaces_found |->
         Cardinality({Get(assignments[i].val, "spaceName", "") : i \in 1..Len(assignments)}),
     storeys_found |->
         Cardinality({Get(assignments[i].val, "storey", "") : i \in
             {j \in 1..Len(assignments) : Truthy(Get(assignments[j].val, "storey", ""))}})]

\* lines 114-123: the elements by space name
RECURSIVE ElementsBySpace(_, _)
ElementsBySpace(details, by_space) ==
    IF details = <<>> THEN by_space
    ELSE LET detail == Head(details)
             space_name == detail.space_assignment.space_name
             old == IF DictHas(by_space, space_name) THEN DictGet(by_space, space_name)
                    ELSE <<>>
         IN ElementsBySpace(Tail(details),
                DictSet(by_space, space_name,
                    Append(old, [id |-> detail.id, type |-> detail.type,
                                 name |-> detail.name])))

\* lines 13-29: the input is read; without a table the script analyses the model
R_Read ==
    /\ script = "add-room-info" /\ pc = "start"
    /\ element_space_map' = SpaceAssignments(input_data)
    /\ result' = DictValue(EmptyUpdate)
    /\ pc' = IF SpaceAssignments(input_data) = <<>> THEN "fallback" ELSE "elements"
    /\ pos' = 1
    /\ UNCHANGED <<transformer_vars, analysis_vars, script, ifc_file, input_data>>

\* lines 36-56: one space of the script's own analysis
R_FallbackSpace ==
    /\ script = "add-room-info" /\ pc = "fallback"
    /\ pos <= Len(ifc_file.spaces)
    /\ ~StoreyLookupFaults(ifc_file.aggregates, ifc_file.spaces[pos])
    /\ LET space == ifc_file.spaces[pos] IN
       element_space_map' = AssignContained(ifc_file.contained, space,
                                FallbackEntry(space, ifc_file), element_space_map)
    /\ pos' = pos + 1
    /\ UNCHANGED <<transformer_vars, analysis_vars, script, pc, ifc_file, input_data,
                   result>>

\* lines 42-43 and 133-140: the storey lookup of a space raises; nothing in the
\* space loop catches it, the except of line 133 replaces the result
R_FallbackFault ==
    /\ script = "add-room-info" /\ pc = "fallback"
    /\ pos <= Len(ifc_file.spaces)
    /\ StoreyLookupFaults(ifc_file.aggregates, ifc_file.spaces[pos])
    /\ result' = AssignmentFailed("'NoneType' object has no attribute 'is_a'")
    /\ pc' = "done"
    /\ UNCHANGED <<transformer_vars, analysis_vars, script, ifc_file, input_data,
                   element_space_map, pos>>

R_FallbackDone ==
    /\ script = "add-room-info" /\ pc = "fallback"
    /\ pos > Len(ifc_file.spaces)
    /\ pc' = "elements"
    /\ pos' = 1
    /\ UNCHANGED <<transformer_vars, analysis_vars, script, ifc_file, input_data,
                   element_space_map, result>>

\* lines 61-102: one entry of the table; an element that is not found is skipped
\* (line 66), and so is one whose space_info raises at line 78 (except of line 100)
R_Element ==
    /\ script = "add-room-info" /\ pc = "elements"
    /\ pos <= Len(element_space_map)
    /\ LET element_guid == element_space_map[pos].key
           space_info == element_space_map[pos].val
           found == ByGuid(ifc_file, element_guid)
           update == result.items
       IN result' = DictValue(
              IF found = <<>> \/ ~IsDict(space_info)
              THEN [update EXCEPT !.elements_skipped = @ + 1]
              ELSE [update EXCEPT
                       !.details = Append(@, ElementUpdate(found[1], space_info)),
                       !.elements_updated = @ + 1])
    /\ pos' = pos + 1
    /\ UNCHANGED <<transformer_vars, analysis_vars, script, pc, ifc_file, input_data,
                   element_space_map>>

\* lines 105-131: the summary and the grouping
R_Finish ==
    /\ script = "add-room-info" /\ pc = "elements"
    /\ pos > Len(element_space_map)
    /\ \A i \in 1..Len(element_space_map) : IsDict(element_space_map[i].val)
    /\ result' = DictValue(result.items @@
           [summary |-> UpdateSummary(element_space_map, result.items),
            elements_by_space |-> ElementsBySpace(result.items.details, <<>>)])
    /\ pc' = "done"
    /\ UNCHANGED <<transformer_vars, analysis_vars, script, ifc_file, input_data,
                   element_space_map, pos>>

\* lines 109 and 133-140: the summary calls s.get on every value of the table,
\* outside the try of line 62; a value that is no dict raises AttributeError and
\* the except of line 133 replaces the result
R_FinishFault ==
    /\ script = "add-room-info" /\ pc = "elements"
    /\ pos > Len(element_space_map)
    /\ \E i \in 1..Len(element_space_map) : ~IsDict(element_space_map[i].val)
    /\ result' = AssignmentFailed("'NoneType' object has no attribute 'get'")
    /\ pc' = "done"
    /\ UNCHANGED <<transformer_vars, analysis_vars, script, ifc_file, input_data,
                   element_space_map, pos>>

(***************************************************************************)
(* The pipeline: the result of the space analysis is the input of the next  *)
(* node, which runs on the same model                                       *)
(***************************************************************************)
P_FeedTransform ==
    /\ script = "space-analysis" /\ pc = "done"
    /\ script' = "transform"
    /\ input_data' = result
    /\ pc' = "start"
    /\ result' = Unset
    /\ pos' = 0
    /\ UNCHANGED <<transformer_vars, analysis_vars, ifc_file, element_space_map>>

P_FeedAddInfo ==
    /\ script = "space-analysis" /\ pc = "done"
    /\ script' = "add-room-info"
    /\ input_data' = result
    /\ pc' = "start"
    /\ result' = Unset
    /\ pos' = 0
    /\ UNCHANGED <<transformer_vars, analysis_vars, ifc_file, element_space_map>>

(***************************************************************************)
(* Inputs of the transformers                                              *)
(***************************************************************************)
\* the model's physical elements (model.by_type('IfcElement'))
W1 == [GlobalId |-> "W1", type |-> "IfcWall", Name |-> "Wall 1"]
W2 == [GlobalId |-> "W2", type |-> "IfcWall", Name |-> PyNone]
D1 == [GlobalId |-> "D1", type |-> "IfcDoor", Name |-> PyNone]
AllElements == <<W1, W2, D1>>
GlobalIds == {"W1", "W2", "D1"}

\* the subsequences of a sequence
RECURSIVE SubSeqs(_)
SubSeqs(s) ==
    IF s = <<>> THEN {<<>>}
    ELSE LET rest == SubSeqs(Tail(s)) IN rest \cup {<<Head(s)>> \o r : r \in rest}

\* the models of the property-adding stage: a space that contains the wall W1,
\* with and without the door D1 in the model
Room == [GlobalId |-> "S1", type |-> "IfcSpace", Name |-> "Room B", ObjectType |-> PyNone,
         Description |-> PyNone, psets |-> [Pset_SpaceCommon |-> [OccupancyNumber |-> 2]]]
ConsumerModels ==
    {[NoModel EXCEPT !.usable = TRUE, !.elements = es, !.spaces = <<Room>>,
                     !.contained = <<[RelatingStructure |-> "S1",
                                      RelatedElements |-> <<W1>>]>>] :
        es \in {<<W1>>, <<W1, D1>>}}

ModelsWithElements ==
    {[NoModel EXCEPT !.usable = TRUE, !.elements = es] : es \in SubSeqs(AllElements)}

\* internal element ids of the indirect shape; the table may also hold an id
\* ("e9") that no element of the list carries
ElementIds == <<"e1", "e2">>
TableIds == {"e1", "e2", "e9"}
\* what an element of inputs['model']['elements'] may carry; GlobalId "" is an
\* element without one; two elements may carry the same GlobalId
ElementKinds ==
    {[type |-> "IfcWall", properties |-> [GlobalId |-> "W1"]],
     [type |-> "IfcWall", properties |-> [GlobalId |-> "W2"]],
     [type |-> "IfcDoor", properties |-> [GlobalId |-> "D1"]],
     [type |-> "IfcWall", properties |-> [GlobalId |-> ""]]}
RECURSIVE ElementLists(_)
ElementLists(ids) ==
    IF ids = <<>> THEN {<<>>}
    ELSE LET rest == ElementLists(Tail(ids)) IN
         rest \cup {<<[id |-> Head(ids), type |-> k.type, properties |-> k.properties]>> \o r :
                        k \in ElementKinds, r \in rest}

\* the space records an entry of the table may carry
SpaceInfos ==
    {[spaceName |-> n, spaceId |-> "S1"] : n \in {"", "None", "Room A", "Room B"}}
        \cup {[spaceId |-> "S1"]}

\* the tables of at most n entries over the keys, in every insertion order
RECURSIVE Tables(_, _)
Tables(keys, n) ==
    IF n = 0 THEN {<<>>}
    ELSE LET shorter == Tables(keys, n - 1)
             longer == {Append(t, [key |-> k, val |-> v]) :
                           t \in {s \in shorter : Len(s) = n - 1},
                           k \in keys, v \in SpaceInfos}
         IN shorter \cup {t \in longer : Cardinality(DictKeys(t)) = Len(t)}

\* what a node may be handed: no dict, an empty dict, a table under the key
\* elementSpaceMap, a table (of at most one entry) under the key element_space_map
InputsOver(keys) ==
    {NoneValue, ListValue, DictValue(NoItems)}
        \cup {DictValue([elementSpaceMap |-> t]) : t \in Tables(keys, MaxEntries)}
        \cup {DictValue([element_space_map |-> t]) : t \in Tables(keys, 1)}

InitLocals ==
    /\ pc = "start"
    /\ element_space_map = <<>>
    /\ wall_global_ids = {}
    /\ element_lookup = <<>>
    /\ wall_mappings = <<>>
    /\ walls_found = 0
    /\ other_elements_skipped = 0
    /\ space_data = <<>>
    /\ zone_data = <<>>
    /\ unassigned = <<>>
    /\ pos = 0
    /\ result = Unset

InitConsumers ==
    /\ script \in {"transform", "to-walls", "add-room-info"}
    /\ CASE script = "transform" ->
                /\ ifc_file \in ModelsWithElements \cup {NoModel}
                /\ input_data \in InputsOver(GlobalIds)
                /\ inputs_model = <<>>
         [] script = "to-walls" ->
                /\ ifc_file = NoModel
                /\ input_data \in InputsOver(TableIds)
                /\ inputs_model \in ElementLists(ElementIds)
         [] script = "add-room-info" ->
                /\ ifc_file \in ConsumerModels
                /\ input_data \in InputsOver(GlobalIds)
                /\ inputs_model = <<>>
    /\ InitLocals

NextConsumers ==
    \/ T_Recognize
    \/ T_Reject
    \/ T_Entry
    \/ T_Finish
    \/ W_Recognize
    \/ W_PassThrough
    \/ W_Fault
    \/ W_Entry
    \/ W_Finish
    \/ R_Read
    \/ R_FallbackSpace
    \/ R_FallbackDone
    \/ R_Element
    \/ R_Finish

SpecConsumers == InitConsumers /\ [][NextConsumers]_vars

(***************************************************************************)
(* Inputs of the space analysis                                            *)
(***************************************************************************)
\* most aggregation relationships and most containment relationships of a model
MaxAggregates == 2
MaxContainment == 2
\* most spaces of a model whose summary is computed
MaxSummarySpaces == 2

S1 == [GlobalId |-> "S1", type |-> "IfcSpace", Name |-> "Room A", ObjectType |-> PyNone,
       Description |-> PyNone,
       psets |-> [Qto_SpaceBaseQuantities |->
                     [NetFloorArea |-> 20500, NetVolume |-> 61500, Height |-> 3000]]]
S2 == [GlobalId |-> "S2_0123456", type |-> "IfcSpace", Name |-> PyNone,
       ObjectType |-> "Office", Description |-> "open plan",
       psets |-> [Pset_SpaceCommon |-> [OccupancyType |-> "Office"]]]
L1 == [GlobalId |-> "L1", type |-> "IfcBuildingStorey", Name |-> "L1"]
L2 == [GlobalId |-> "L2", type |-> "IfcBuildingStorey", Name |-> "L2"]
B1 == [GlobalId |-> "B1", type |-> "IfcBuilding", Name |-> "B1"]
Z1 == [GlobalId |-> "Z1", type |-> "IfcZone", Name |-> PyNone, ObjectType |-> PyNone,
       Description |-> PyNone]
BuildElements == <<W1, D1>>

\* the sequences of at most n members of a set
RECURSIVE SeqsUpTo(_, _)
SeqsUpTo(S, n) ==
    IF n = 0 THEN {<<>>}
    ELSE LET shorter == SeqsUpTo(S, n - 1) IN
         shorter \cup {Append(t, x) : t \in {q \in shorter : Len(q) = n - 1}, x \in S}

SpaceIds(spaces) == {spaces[i].GlobalId : i \in 1..Len(spaces)}

AggregationRels(spaces) ==
    {[RelatingObject |-> o, RelatedObjects |-> r] :
        o \in {L1, L2, B1}, r \in (SUBSET SpaceIds(spaces)) \ {{}}}

ContainmentRels(spaces) ==
    {[RelatingStructure |-> st, RelatedElements |-> es] :
        st \in SpaceIds(spaces) \cup {L1.GlobalId},
        es \in SubSeqs(BuildElements) \ {<<>>}}

\* one zone grouping every space (and a wall, which is no space), when there are spaces
ZonesOf(spaces) == IF spaces = <<>> THEN <<>> ELSE <<Z1>>
GroupsOf(spaces) ==
    IF spaces = <<>> THEN <<>>
    ELSE <<[RelatingGroup |-> Z1.GlobalId, RelatedObjects |-> spaces \o <<W1>>]>>

\* The relationships of a model: every enumeration of aggregation relationships
\* with the plain containment (none, or the first space containing W1), and
\* every enumeration of containment relationships with the plain aggregation
\* (none, or L1 aggregating the first space).
PlainAggregates(sp) ==
    IF sp = <<>> THEN {<<>>}
    ELSE {<<>>, <<[RelatingObject |-> L1, RelatedObjects |-> {sp[1].GlobalId}]>>}
PlainContainment(sp) ==
    IF sp = <<>> THEN {<<>>}
    ELSE {<<>>, <<[RelatingStructure |-> sp[1].GlobalId, RelatedElements |-> <<W1>>]>>}
RelationshipsOf(sp) ==
    (SeqsUpTo(AggregationRels(sp), MaxAggregates) \X PlainContainment(sp))
        \cup (PlainAggregates(sp) \X SeqsUpTo(ContainmentRels(sp), MaxContainment))

BuildModels ==
    UNION {
        {[usable |-> TRUE, spaces |-> sp, storeys |-> <<L1, L2>>, zones |-> ZonesOf(sp),
          aggregates |-> rels[1], contained |-> rels[2], groups |-> GroupsOf(sp),
          elements |-> BuildElements] : rels \in RelationshipsOf(sp)} :
        sp \in {<<>>, <<S1>>, <<S1, S2>>}}

InitBuild ==
    /\ script \in {"space-analysis", "add-room-info"}
    /\ ifc_file \in BuildModels
    /\ input_data = NoneValue
    /\ inputs_model = <<>>
    /\ InitLocals

NextBuild ==
    \/ A_Start
    \/ A_Space
    \/ A_Zones
    \/ A_Unassigned
    \/ A_Summary
    \/ P_FeedTransform
    \/ T_Reject
    \/ P_FeedAddInfo
    \/ R_Read
    \/ R_FallbackSpace
    \/ R_FallbackDone
    \/ R_Element
    \/ R_Finish

Spec == InitBuild /\ [][NextBuild]_vars

\* spaces for the summary: names and types with and without a keyword, in either
\* case; areas of 0 (no quantities), 0.004, 30 and 70
SummaryIds == <<"S1", "S2_0123456", "S3">>
SummarySpaces(i) ==
    {[GlobalId |-> SummaryIds[i], type |-> "IfcSpace", Name |-> n, ObjectType |-> t,
      Description |-> PyNone, psets |-> ps] :
        n \in {"Main Corridor", "Office 1", PyNone},
        t \in {"LOBBY", PyNone},
        ps \in {[Pset_SpaceCommon |-> [OccupancyNumber |-> 2]]} \cup
               {[Qto_SpaceBaseQuantities |->
                    [NetFloorArea |-> a, NetVolume |-> 3 * a, Height |-> 3000]] :
                        a \in {4, 30000, 70000}}}
RECURSIVE SummarySpaceLists(_)
SummarySpaceLists(n) ==
    IF n = 0 THEN {<<>>}
    ELSE LET shorter == SummarySpaceLists(n - 1) IN
         shorter \cup {Append(t, x) : t \in {q \in shorter : Len(q) = n - 1},
                                       x \in SummarySpaces(n)}

InitSummary ==
    /\ script = "space-analysis"
    /\ ifc_file \in {[usable |-> TRUE, spaces |-> sp, storeys |-> <<L1>>, zones |-> <<>>,
                      aggregates |-> <<>>, contained |-> <<>>, groups |-> <<>>,
                      elements |-> <<W1>>] : sp \in SummarySpaceLists(MaxSummarySpaces)}
    /\ input_data = NoneValue
    /\ inputs_model = <<>>
    /\ InitLocals

NextSummary ==
    \/ A_Start
    \/ A_Space
    \/ A_Zones
    \/ A_Unassigned
    \/ A_Summary

SpecSummary == InitSummary /\ [][NextSummary]_vars

(***************************************************************************)
(* Inputs that raise: property sets that cannot be read, aggregation       *)
(* relationships whose relating object is not set, table values that are   *)
(* no dicts                                                                *)
(***************************************************************************)
\* most aggregation relationships of a model of this kind
MaxFaultRels == 2
FaultAggregationRels(spaces) ==
    {[RelatingObject |-> o, RelatedObjects |-> {id}] :
        o \in {L1, NoEntity}, id \in SpaceIds(spaces)}
\* the first space with readable and with unreadable property sets
FaultSpaceLists ==
    UNION {{<<first>>, <<first, S2>>} :
              first \in {S1, [S1 EXCEPT !.psets = UnreadablePsets]}}
\* every space contains one element
FaultContainment(spaces) ==
    [i \in 1..Len(spaces) |->
        [RelatingStructure |-> spaces[i].GlobalId,
         RelatedElements |-> <<BuildElements[i]>>]]
FaultModels ==
    UNION {
        {[usable |-> TRUE, spaces |-> sp, storeys |-> <<L1>>, zones |-> <<>>,
          aggregates |-> ag, contained |-> FaultContainment(sp), groups |-> <<>>,
          elements |-> BuildElements] :
            ag \in SeqsUpTo(FaultAggregationRels(sp), MaxFaultRels)} :
        sp \in FaultSpaceLists}
\* tables whose values are dicts or None
RECURSIVE FaultTables(_, _)
FaultTables(keys, n) ==
    IF n = 0 THEN {<<>>}
    ELSE LET shorter == FaultTables(keys, n - 1)
             longer == {Append(t, [key |-> k, val |-> v]) :
                           t \in {q \in shorter : Len(q) = n - 1},
                           k \in keys,
                           v \in {NoneInfo, [spaceName |-> "Room A", spaceId |-> "S1"]}}
         IN shorter \cup {t \in longer : Cardinality(DictKeys(t)) = Len(t)}

InitFaults ==
    /\ script \in {"space-analysis", "add-room-info"}
    /\ \/ /\ ifc_file \in FaultModels
          /\ input_data = NoneValue
       \/ /\ script = "add-room-info"
          /\ ifc_file \in ConsumerModels
          /\ input_data \in {DictValue([elementSpaceMap |-> t]) :
                                 t \in FaultTables({"W1", "D1"}, MaxEntries) \ {<<>>}}
    /\ inputs_model = <<>>
    /\ InitLocals

NextFaults ==
    \/ A_Start
    \/ A_Space
    \/ A_SpaceFault
    \/ A_Zones
    \/ A_Unassigned
    \/ A_Summary
    \/ R_Read
    \/ R_FallbackSpace
    \/ R_FallbackFault
    \/ R_FallbackDone
    \/ R_Element
    \/ R_Finish
    \/ R_FinishFault

SpecFaults == InitFaults /\ [][NextFaults]_vars


(***************************************************************************)
(* Vocabulary of the properties of the transformers.  An entry's element   *)
(* is resolved from the inputs alone: in the direct shape the key is the   *)
(* GlobalId and a wall is a key of a wall of the model; in the indirect    *)
(* shape the key is an element id, resolved by the element list to a       *)
(* GlobalId and a type when the element carries both.                      *)
(***************************************************************************)
Finished == pc \in {"done", "fault"}
TransformerDone == script \in {"transform", "to-walls"} /\ pc = "done"
MarkerPresent == input_data.kind = "dict" /\ "elementSpaceMap" \in DOMAIN input_data.items
InputTable == input_data.items["elementSpaceMap"]
Output == result.items

ModelWalls ==
    {ifc_file.elements[i].GlobalId :
        i \in {j \in 1..Len(ifc_file.elements) : ifc_file.elements[j].type = "IfcWall"}}
ListedElements(k) ==
    {i \in 1..Len(inputs_model) :
        inputs_model[i].id = k /\ inputs_model[i].properties.GlobalId # ""}
\* the key resolves to an element of known type
Resolves(k) == IF script = "transform" THEN TRUE ELSE ListedElements(k) # {}
\* the type the key resolves to is the filter type
IsWallKey(k) ==
    IF script = "transform"
    THEN ifc_file.usable /\ k \in ModelWalls
    ELSE \E i \in ListedElements(k) : inputs_model[i].type = "IfcWall"
\* the GlobalId under which the key's element is written
GlobalIdOf(k) ==
    IF script = "transform" THEN k
    ELSE inputs_model[CHOOSE i \in ListedElements(k) : TRUE].properties.GlobalId
NameOf(e) == IF "spaceName" \in DOMAIN e.val THEN e.val.spaceName ELSE ""
NamePresent(e) == NameOf(e) \notin {"", "None"}
ValidWall(e) == IsWallKey(e.key) /\ NamePresent(e)
Entries(P(_)) == {i \in 1..Len(InputTable) : P(InputTable[i])}
IsWallEntry(e) == IsWallKey(e.key)
IsNonWallEntry(e) == ~IsWallKey(e.key)
IsKnownNonWallEntry(e) == Resolves(e.key) /\ ~IsWallKey(e.key)
OutputValuesValid ==
    \A i \in 1..Len(Output.mappings) : Output.mappings[i].val \notin {"", "None", PyNone}
\* the table holds only walls with valid names and non-walls
OnlyValidWallsAndNonWalls ==
    \A i \in 1..Len(InputTable) : ValidWall(InputTable[i]) \/ IsNonWallEntry(InputTable[i])

\* C1 as stated: with N walls with valid names and M non-wall entries in the table,
\* matched is N, skipped is M and every output value is a non-empty string other
\* than "None".
C1_Original ==
    (TransformerDone /\ MarkerPresent /\ OnlyValidWallsAndNonWalls) =>
        /\ Output.metadata.wallsFound = Cardinality(Entries(IsWallEntry))
        /\ Output.metadata.otherElementsSkipped = Cardinality(Entries(IsNonWallEntry))
        /\ OutputValuesValid

\* C1: with N walls with valid names and M non-wall entries in the table, matched
\* is N, skipped is the number of non-wall entries whose element the transformer
\* can resolve (all M in the direct shape; in the indirect shape an entry whose id
\* the element lookup does not hold is counted in neither counter), and every
\* output value is a non-empty string other than "None".
C1_Counters ==
    (TransformerDone /\ MarkerPresent /\ OnlyValidWallsAndNonWalls) =>
        /\ Output.metadata.wallsFound = Cardinality(Entries(IsWallEntry))
        /\ Output.metadata.otherElementsSkipped = Cardinality(Entries(IsKnownNonWallEntry))
        /\ script = "transform" =>
               Output.metadata.otherElementsSkipped = Cardinality(Entries(IsNonWallEntry))
        /\ OutputValuesValid

C1_Witness ==
    /\ TransformerDone /\ MarkerPresent /\ OnlyValidWallsAndNonWalls
    /\ script = "to-walls"
    /\ Output.metadata.wallsFound = 1
    /\ Output.metadata.otherElementsSkipped = 1
    /\ Len(InputTable) = 2

\* C2 as stated: skipped counts every entry left out of the output, for its type
\* or for its space name, so every entry is counted once, in matched or in skipped.
C2_Original ==
    (TransformerDone /\ MarkerPresent) =>
        /\ Output.metadata.otherElementsSkipped =
               Len(InputTable) - Cardinality(Entries(ValidWall))
        /\ Output.metadata.wallsFound + Output.metadata.otherElementsSkipped
               = Len(InputTable)

\* C2: skipped counts only the entries left out for their type (the element
\* resolves and is no wall); an entry of a wall whose space name is empty, absent
\* or "None" (and, in the indirect shape, an entry whose id does not resolve) is
\* counted in neither counter, so every entry is counted at most once.
C2_SkippedIsTypeMismatch ==
    (TransformerDone /\ MarkerPresent) =>
        /\ Output.metadata.wallsFound = Cardinality(Entries(ValidWall))
        /\ Output.metadata.otherElementsSkipped = Cardinality(Entries(IsKnownNonWallEntry))
        /\ Output.metadata.wallsFound + Output.metadata.otherElementsSkipped
               <= Len(InputTable)

C2_Witness ==
    /\ TransformerDone /\ MarkerPresent
    /\ \E i \in 1..Len(InputTable) :
           IsWallEntry(InputTable[i]) /\ ~NamePresent(InputTable[i])
    /\ Output.metadata.wallsFound + Output.metadata.otherElementsSkipped
           < Len(InputTable)
    /\ Output.metadata.otherElementsSkipped = 1

\* C3 as stated: an entry's GlobalId is a key of the output iff the entry is a wall
\* with a valid space name, and the value under that key is the entry's space name.
C3_Original ==
    (TransformerDone /\ MarkerPresent) =>
        \A i \in 1..Len(InputTable) :
            LET e == InputTable[i] IN
            /\ ValidWall(e) =>
                   /\ DictHas(Output.mappings, GlobalIdOf(e.key))
                   /\ DictGet(Output.mappings, GlobalIdOf(e.key)) = NameOf(e)
            /\ (Resolves(e.key) /\ ~ValidWall(e)) =>
                   ~DictHas(Output.mappings, GlobalIdOf(e.key))

\* the entries that resolve to GlobalId g and are walls with a valid name
ValidWallsOf(g) ==
    {i \in 1..Len(InputTable) :
        ValidWall(InputTable[i]) /\ GlobalIdOf(InputTable[i].key) = g}
Max(S) == CHOOSE x \in S : \A y \in S : y <= x

\* C3: a GlobalId is a key of the output iff some entry resolving to it is a wall
\* with a valid space name, and the value is the space name of the last such entry
\* of the table; when no other entry resolves to the same GlobalId (always, in the
\* direct shape) this is the statement above.
C3_Inclusion ==
    (TransformerDone /\ MarkerPresent) =>
        /\ \A i \in 1..Len(InputTable) :
               LET e == InputTable[i] IN
               Resolves(e.key) =>
                   LET g == GlobalIdOf(e.key) IN
                   /\ DictHas(Output.mappings, g) <=> ValidWallsOf(g) # {}
                   /\ ValidWallsOf(g) # {} =>
                          DictGet(Output.mappings, g) = NameOf(InputTable[Max(ValidWallsOf(g))])
                   /\ (ValidWallsOf(g) \subseteq {i}) =>
                          /\ DictHas(Output.mappings, g) <=> ValidWall(e)
                          /\ ValidWall(e) => DictGet(Output.mappings, g) = NameOf(e)
        /\ \A j \in 1..Len(Output.mappings) : ValidWallsOf(Output.mappings[j].key) # {}

C3_Witness ==
    /\ TransformerDone /\ MarkerPresent
    /\ Len(InputTable) = 2
    /\ ValidWall(InputTable[1])
    /\ IsWallEntry(InputTable[2]) /\ ~NamePresent(InputTable[2])
    /\ DictKeys(Output.mappings) = {GlobalIdOf(InputTable[1].key)}
    /\ GlobalIdOf(InputTable[2].key) # GlobalIdOf(InputTable[1].key)

\* C4: on input that is no mapping or lacks the elementSpaceMap marker
\* the transformer does not fail, and its output has an empty mappings table and
\* metadata.error set.
C4_Original ==
    (script \in {"transform", "to-walls"} /\ Finished /\ ~MarkerPresent) =>
        /\ pc = "done"
        /\ result.kind = "dict"
        /\ "mappings" \in DOMAIN Output /\ Output.mappings = <<>>
        /\ "metadata" \in DOMAIN Output /\ "error" \in DOMAIN Output.metadata

\* C5 as stated: every consumer recognizes the table under element_space_map as it
\* does under elementSpaceMap and produces the same result: the transformers map
\* the table's walls with valid names, the property-adding stage processes the
\* table's entries.
SnakeTable == input_data.items["element_space_map"]
C5_EitherKey ==
    (pc = "done" /\ script \in {"transform", "to-walls", "add-room-info"}
         /\ input_data.kind = "dict" /\ "element_space_map" \in DOMAIN input_data.items
         /\ SnakeTable # <<>>) =>
        IF script = "add-room-info"
        THEN Output.summary.total_processed = Len(SnakeTable)
        ELSE /\ "metadata" \in DOMAIN Output
             /\ "error" \notin DOMAIN Output.metadata
             /\ Output.metadata.wallsFound =
                    Cardinality({i \in 1..Len(SnakeTable) : ValidWall(SnakeTable[i])})
             /\ \A i \in 1..Len(SnakeTable) :
                    ValidWall(SnakeTable[i]) =>
                        DictHas(Output.mappings, GlobalIdOf(SnakeTable[i].key))

(***************************************************************************)
(* Vocabulary of the properties of the space analysis, stated on the model *)
(* handed to the script and on the record it returns                       *)
(***************************************************************************)
AnalysisDone == script = "space-analysis" /\ pc = "done"
Record == result.items
IdsOf(records) == {records[i].id : i \in 1..Len(records)}
\* the GlobalIds of the related elements of a containment relationship
RelatedIds(rel) == {rel.RelatedElements[j].GlobalId : j \in 1..Len(rel.RelatedElements)}
\* the containment relationships that relate the element
RelsOf(g) == {r \in 1..Len(ifc_file.contained) : g \in RelatedIds(ifc_file.contained[r])}
\* the spaces (by position in the enumeration) that contain the element
SpacesContaining(g) ==
    {i \in 1..Len(ifc_file.spaces) :
        \E r \in RelsOf(g) :
            ifc_file.contained[r].RelatingStructure = ifc_file.spaces[i].GlobalId}
ElementIdsOfModel == {ifc_file.elements[i].GlobalId : i \in 1..Len(ifc_file.elements)}
\* the space records whose elements list holds the element
RecordsListing(g) ==
    {i \in 1..Len(Record.spaces) : g \in IdsOf(Record.spaces[i].elements)}

\* C6 as stated: when the record of the space analysis is handed to the mapping
\* transformer with filter Wall, every wall contained in a named space is a key
\* of mappings with that space's name as value, and is counted in matched.
C6_Pipeline ==
    (script = "transform" /\ pc = "done" /\ input_data.kind = "dict"
         /\ "spaces" \in DOMAIN input_data.items) =>
        \A i \in 1..Len(ifc_file.spaces) :
            \A g \in ModelWalls :
                (SpacesContaining(g) = {i} /\ ifc_file.spaces[i].Name # PyNone) =>
                    /\ DictHas(Output.mappings, g)
                    /\ DictGet(Output.mappings, g) = ifc_file.spaces[i].Name
                    /\ "wallsFound" \in DOMAIN Output.metadata
                    /\ Output.metadata.wallsFound >= 1

\* the entries of a table under a key
EntriesOf(table, g) == {i \in 1..Len(table) : table[i].key = g}
\* the property-adding stage has analysed the model itself
OwnAnalysisDone ==
    /\ script = "add-room-info" /\ pc \in {"elements", "done"}
    /\ \/ input_data.kind # "dict"
       \/ /\ "elementSpaceMap" \notin DOMAIN input_data.items
          /\ "element_space_map" \notin DOMAIN input_data.items

\* C7: an element that is a related element of containment relationships of two
\* (or more) spaces has a single entry in the map, which names the space that is
\* last in the enumeration of the spaces, whatever the order of the containment
\* relationships, and no error is reported; the same holds of the table that the
\* property-adding stage builds when it analyses the model itself.
C7_LastWriteWins ==
    /\ AnalysisDone =>
           /\ "error" \notin DOMAIN Record
           /\ \A g \in ElementIdsOfModel :
                  Cardinality(SpacesContaining(g)) >= 2 =>
                      /\ Cardinality(EntriesOf(Record.element_space_map, g)) = 1
                      /\ DictGet(Record.element_space_map, g).space_id
                             = ifc_file.spaces[Max(SpacesContaining(g))].GlobalId
    /\ OwnAnalysisDone =>
           /\ pc = "done" => "error" \notin DOMAIN Output
           /\ \A g \in ElementIdsOfModel :
                  Cardinality(SpacesContaining(g)) >= 2 =>
                      /\ Cardinality(EntriesOf(element_space_map, g)) = 1
                      /\ DictGet(element_space_map, g).spaceId
                             = ifc_file.spaces[Max(SpacesContaining(g))].GlobalId

\* the wall is in both spaces and the relationship of the later space comes first
C7_Witness ==
    /\ AnalysisDone
    /\ Len(ifc_file.contained) = 2
    /\ ifc_file.contained[1].RelatingStructure = "S2_0123456"
    /\ ifc_file.contained[2].RelatingStructure = "S1"
    /\ SpacesContaining("W1") = {1, 2}
    /\ DictGet(Record.element_space_map, "W1").space_id = "S2_0123456"
    /\ DictGet(Record.element_space_map, "W1").space_name = "Space_S2_01234"

\* C8: an element contained in exactly one space is a key of the map with that
\* space's id, and is in the elements list of exactly one space record, that
\* space's.
C8_ExactlyOneSpace ==
    AnalysisDone =>
        \A g \in ElementIdsOfModel :
            \A i \in 1..Len(ifc_file.spaces) :
                SpacesContaining(g) = {i} =>
                    /\ DictHas(Record.element_space_map, g)
                    /\ DictGet(Record.element_space_map, g).space_id
                           = ifc_file.spaces[i].GlobalId
                    /\ RecordsListing(g) = {i}
                    /\ Record.spaces[i].id = ifc_file.spaces[i].GlobalId

C8_Witness ==
    /\ AnalysisDone
    /\ Len(ifc_file.spaces) = 2
    /\ SpacesContaining("W1") = {1}
    /\ SpacesContaining("D1") = {2}
    /\ DictGet(Record.element_space_map, "D1").space_id = "S2_0123456"
    /\ RecordsListing("W1") = {1}

\* C9: unassigned holds exactly the physical elements that are no key of the map
\* and are a related element of no containment relationship; an element contained
\* only in a storey is in neither; no unassigned element is a key of the map.
C9_Unassigned ==
    AnalysisDone =>
        LET keys == DictKeys(Record.element_space_map)
            listed == IdsOf(Record.unassigned_elements)
        IN /\ listed = {g \in ElementIdsOfModel : g \notin keys /\ RelsOf(g) = {}}
           /\ Len(Record.unassigned_elements) = Cardinality(listed)
           /\ \A g \in ElementIdsOfModel :
                  (RelsOf(g) # {} /\ SpacesContaining(g) = {}) =>
                      (g \notin listed /\ g \notin keys)
           /\ listed \cap keys = {}

C9_Witness ==
    /\ AnalysisDone
    /\ IdsOf(Record.unassigned_elements) = {"D1"}
    /\ RelsOf("W1") # {} /\ SpacesContaining("W1") = {}
    /\ Record.element_space_map = <<>>
    /\ Len(ifc_file.spaces) = 2

(***************************************************************************)
(* The classification, stated on the spaces handed to the script: of the   *)
(* names and types of the model "Main Corridor" and "LOBBY" hold a keyword. *)
(***************************************************************************)
HoldsKeyword(space) == space.Name = "Main Corridor" \/ space.ObjectType = "LOBBY"
AreaOf(space) ==
    IF "Qto_SpaceBaseQuantities" \in DOMAIN space.psets
    THEN space.psets["Qto_SpaceBaseQuantities"].NetFloorArea ELSE 0
RECURSIVE TotalAreaOf(_)
TotalAreaOf(spaces) ==
    IF spaces = <<>> THEN 0 ELSE AreaOf(Head(spaces)) + TotalAreaOf(Tail(spaces))
AreaWhere(spaces, P(_)) == TotalAreaOf(SelectSeq(spaces, P))
AnySpace(space) == TRUE
NoKeyword(space) == ~HoldsKeyword(space)
Distance(a, b) == IF a >= b THEN a - b ELSE b - a
CountsPartition ==
    /\ Record.summary.circulation.count
           = Cardinality({i \in 1..Len(ifc_file.spaces) : HoldsKeyword(ifc_file.spaces[i])})
    /\ Record.summary.program.count
           = Cardinality({i \in 1..Len(ifc_file.spaces) : NoKeyword(ifc_file.spaces[i])})
    /\ Record.summary.circulation.count + Record.summary.program.count
           = Len(ifc_file.spaces)

\* C10 as stated: every space is in exactly one of the circulation and program
\* lists (circulation iff its name or type holds a keyword, in any case), the
\* counts add up to the number of spaces, circulationArea + programArea equals
\* totalArea, and both percentages are 0 when totalArea is 0.
C10_Original ==
    AnalysisDone =>
        /\ CountsPartition
        /\ Record.summary.circulation.area + Record.summary.program.area
               = Record.summary.total_area
        /\ Record.summary.total_area = 0 =>
               /\ Record.summary.circulation.percentage = 0
               /\ Record.summary.program.percentage = 0

\* C10: every space is in exactly one of the two lists (circulation iff its name
\* or type holds a keyword, in any case) and the counts add up to the number of
\* spaces; the areas of the two lists add up to the total before rounding, so the
\* reported circulationArea + programArea equals totalArea within the rounding
\* tolerance of 0.01 (each reported area is within 0.005 of the sum it rounds);
\* both percentages are 0 when the unrounded total area is 0.
C10_Partition ==
    AnalysisDone =>
        /\ CountsPartition
        /\ Distance(Record.summary.circulation.area,
                    AreaWhere(ifc_file.spaces, HoldsKeyword)) <= 5
        /\ Distance(Record.summary.program.area,
                    AreaWhere(ifc_file.spaces, NoKeyword)) <= 5
        /\ Distance(Record.summary.total_area, AreaWhere(ifc_file.spaces, AnySpace)) <= 5
        /\ Distance(Record.summary.circulation.area + Record.summary.program.area,
                    Record.summary.total_area) <= 10
        /\ AreaWhere(ifc_file.spaces, AnySpace) = 0 =>
               /\ Record.summary.circulation.percentage = 0
               /\ Record.summary.program.percentage = 0

C10_Witness ==
    /\ AnalysisDone
    /\ Record.summary.circulation.count = 1
    /\ Record.summary.program.count = 1
    /\ ifc_file.spaces[1].Name = "Main Corridor"
    /\ AreaOf(ifc_file.spaces[1]) = 30000 /\ AreaOf(ifc_file.spaces[2]) = 70000
    /\ Record.summary.circulation.percentage = 300
    /\ Record.summary.program.percentage = 700

(***************************************************************************)
(* Fault isolation                                                         *)
(***************************************************************************)
\* C11: a fault raised while one space or one element is processed is caught
\* for that entity and the batch continues: the result is the normal record (not
\* the {error, message} record), the analysis has a record of every space and
\* the property-adding stage has processed every entry of its table.
C11_FaultIsolation ==
    (pc = "done" /\ script \in {"space-analysis", "add-room-info"}) =>
        /\ "error" \notin DOMAIN result.items
        /\ script = "space-analysis" =>
               IdsOf(Record.spaces) = SpaceIds(ifc_file.spaces)
        /\ script = "add-room-info" =>
               result.items.summary.total_processed = Len(element_space_map)

(***************************************************************************)
(* Storey resolution, stated on the aggregation relationships of the model *)
(***************************************************************************)
\* the aggregation relationships (by position) that relate the space to a storey
StoreyRelsOf(id) ==
    {r \in 1..Len(ifc_file.aggregates) :
        /\ id \in ifc_file.aggregates[r].RelatedObjects
        /\ ifc_file.aggregates[r].RelatingObject.type = "IfcBuildingStorey"}
Min(S) == CHOOSE x \in S : \A y \in S : x <= y
ExpectedStorey(id) ==
    IF StoreyRelsOf(id) = {} THEN PyNone
    ELSE ifc_file.aggregates[Min(StoreyRelsOf(id))].RelatingObject.Name

\* C12: the storey recorded for a space is the name of the relating object of
\* the first aggregation relationship, in enumeration order, that relates the
\* space and whose relating object is a building storey; relationships with
\* another relating object are passed over without ending the scan; the storey
\* is null when no relationship qualifies.  The same storey is written to the
\* entries of the map, and to the table of the property-adding stage's own
\* analysis.
C12_StoreyResolution ==
    /\ AnalysisDone =>
           /\ \A i \in 1..Len(Record.spaces) :
                  Record.spaces[i].storey = ExpectedStorey(Record.spaces[i].id)
           /\ \A j \in 1..Len(Record.element_space_map) :
                  Record.element_space_map[j].val.storey =
                      ExpectedStorey(Record.element_space_map[j].val.space_id)
    /\ OwnAnalysisDone =>
           \A j \in 1..Len(element_space_map) :
               element_space_map[j].val.storey =
                   ExpectedStorey(element_space_map[j].val.spaceId)

C12_Witness ==
    /\ AnalysisDone
    /\ Len(ifc_file.aggregates) = 2
    /\ ifc_file.aggregates[1].RelatingObject = B1
    /\ ifc_file.aggregates[2].RelatingObject = L2
    /\ \A r \in 1..2 : "S1" \in ifc_file.aggregates[r].RelatedObjects
    /\ Record.spaces[1].id = "S1" /\ Record.spaces[1].storey = "L2"
    /\ Len(Record.spaces) = 2 /\ Record.spaces[2].storey = PyNone

(***************************************************************************)
(* The counters of the mappings                                            *)
(***************************************************************************)
\* the GlobalIds to which the walls with a valid name of the table resolve
ValidWallGlobalIds == {GlobalIdOf(InputTable[i].key) : i \in Entries(ValidWall)}
\* two entries of walls with valid names resolve to the same GlobalId
SharedGlobalId ==
    \E i, j \in Entries(ValidWall) :
        i # j /\ GlobalIdOf(InputTable[i].key) = GlobalIdOf(InputTable[j].key)

\* C13 as stated: on every recognized input, of either shape, wallsFound equals
\* totalMappings, the number of keys of the mappings table.
C13_Original ==
    (TransformerDone /\ MarkerPresent) =>
        /\ Output.metadata.totalMappings = Len(Output.mappings)
        /\ Output.metadata.wallsFound = Output.metadata.totalMappings

\* C13: totalMappings is the number of keys of the mappings table, which is the
\* number of distinct GlobalIds of the walls with a valid name; wallsFound is the
\* number of entries of such walls; so wallsFound >= totalMappings, with equality
\* exactly when no two such entries resolve to the same GlobalId: always in the
\* direct shape, and not in the indirect shape when two internal ids of walls
\* with valid names resolve to one GlobalId.
C13_FoundCountsEntries ==
    (TransformerDone /\ MarkerPresent) =>
        /\ Output.metadata.totalMappings = Len(Output.mappings)
        /\ Output.metadata.totalMappings = Cardinality(ValidWallGlobalIds)
        /\ Output.metadata.wallsFound = Cardinality(Entries(ValidWall))
        /\ Output.metadata.wallsFound >= Output.metadata.totalMappings
        /\ (Output.metadata.wallsFound = Output.metadata.totalMappings) <=> ~SharedGlobalId
        /\ script = "transform" => ~SharedGlobalId

C13_Witness ==
    /\ TransformerDone /\ MarkerPresent
    /\ script = "to-walls"
    /\ Len(InputTable) = 2
    /\ SharedGlobalId
    /\ Output.metadata.wallsFound = 2
    /\ Output.metadata.totalMappings = 1

====
